---- MODULE Spec2Model ----
(***************************************************************************)
(* Model of llnl.util.lock: the flock-based recursive read/write Lock and  *)
(* its two context managers.  Every Lock instance owns its own open file   *)
(* description on the one lock file, so the kernel arbitrates between      *)
(* instances.  Time is counted in sleep intervals of 0.1 s.                *)
(***************************************************************************)
EXTENDS Integers, Sequences, FiniteSets, TLC

\* The Lock instances opened on the lock file, each by its own process.
Locks == {"A", "B"}

\* Deepest recursion (reads + writes) instance A is driven to.
MaxDepth == 3
\* Deepest recursion the contending instance B is driven to.
MaxContenderDepth == 1
\* Largest timeout passed to an acquire, in tenths of a second.
MaxTimeout == 2

Timeouts == 0..MaxTimeout

DepthCap(i) == IF i = "A" THEN MaxDepth ELSE MaxContenderDepth

LOCK_SH == "SH"
LOCK_EX == "EX"
LOCK_UN == "UN"

\* errno values flock() can fail with besides EAGAIN.
FaultErrnos == {"EACCES", "ENOLCK"}

VARIABLES
    reads,      \* reads[i]: Lock._reads
    writes,     \* writes[i]: Lock._writes
    held,       \* held[i]: the flock the kernel records for i's descriptor
    content,    \* content of the lock file
    call,       \* call[i]: the _lock call i is inside (sleeping between polls)
    scopes,     \* scopes[i]: the with-blocks i is inside, innermost last
    trip,       \* trip[i]: the run of same-kind acquires/releases i is in
    last,       \* the step taken last: who, which method, which OS calls
    thr         \* the threads of one process that share instance "A"

vars == <<reads, writes, held, content, call, scopes, trip, last, thr>>

Pid(i) == IF i = "A" THEN 101 ELSE 102
Host(i) == "node.example.org"

\* "pid = " + str(os.getpid()) + ", host = " + socket.getfqdn()
Stamp(i) == <<"pid = ", Pid(i), ", host = ", Host(i)>>

InitialContent == <<>>
Truncated == <<"">>

Idle == [pc |-> "idle", name |-> "none", guard |-> "none", op |-> LOCK_UN,
         timeout |-> 0, total_time |-> 0]

NoTrip == [kind |-> "none", up |-> 0, down |-> 0, err |-> FALSE]

\* inst, name: the method running; guard: the context manager that called it;
\* locked: it is inside _lock; flock, res: the flock request of this step and
\* its result; slept, wrote, unlocked: further OS calls of this step; exc: the
\* exception the call ended with; done: the call ended in this step.
NoEvent == [inst |-> "none", name |-> "none", guard |-> "none", locked |-> FALSE,
            flock |-> "none", res |-> "none", slept |-> FALSE, wrote |-> FALSE,
            unlocked |-> FALSE, exc |-> "none", done |-> TRUE]

Ev(i, name, g) == [NoEvent EXCEPT !.inst = i, !.name = name, !.guard = g]

Threads == {"t1", "t2"}

\* Every call on the instance is made by one thread at a time, none is inside
\* a call.  lost records that a counter store overwrote another thread's.
SingleThreaded ==
    [serial |-> TRUE,
     pc |-> [t \in Threads |-> "idle"],
     name |-> [t \in Threads |-> "none"],
     tmp |-> [t \in Threads |-> 0],
     lost |-> FALSE]

Init ==
    /\ thr = SingleThreaded
    /\ reads = [i \in Locks |-> 0]
    /\ writes = [i \in Locks |-> 0]
    /\ held = [i \in Locks |-> LOCK_UN]
    /\ content = InitialContent
    /\ call = [i \in Locks |-> Idle]
    /\ scopes = [i \in Locks |-> <<>>]
    /\ trip = [i \in Locks |-> NoTrip]
    /\ last = NoEvent

----------------------------------------------------------------------------
(* The kernel: flock(fd, op | LOCK_NB) *)

\* Another descriptor holds a lock that op cannot coexist with.
Conflicts(i, op) ==
    \E j \in Locks \ {i} :
        held[j] = LOCK_EX \/ (op = LOCK_EX /\ held[j] = LOCK_SH)

\* A request for a mode the descriptor does not hold drops the old lock first.
AfterRefusal(i, op) ==
    IF held[i] \in {LOCK_UN, op} THEN held ELSE [held EXCEPT ![i] = LOCK_UN]

----------------------------------------------------------------------------
(* Pure parts of the Lock methods *)

\* Sign of (0.1 added k times in double arithmetic) - (the double k/10).
Drift(k) ==
    CASE k \in {3, 14, 15} -> 1
      [] k \in {8, 9, 10, 11} -> -1
      [] OTHER -> 0

\* Variant: the interval about to be slept is charged before the request.
LoopTestChargesAhead(total, timeout) == total + 1 < timeout

\* while total_time < timeout, total_time being 0.1 added total times
LoopTest(total, timeout) ==
    total < timeout \/ (total = timeout /\ Drift(total) < 0)

\* The module binds no name EACCES (it imports errno, never from errno).
EACCESBound == FALSE

\* except IOError: errno == errno.EAGAIN or errno == EACCES -> pass, else raise
Handler(e) ==
    IF e = "EAGAIN" THEN "retry"
    ELSE IF ~EACCESBound THEN "NameError"
    ELSE IF e = "EACCES" THEN "retry"
    ELSE "IOError"

\* Variant: the last release_read unlocks although writes are outstanding.
ReadUnlocksIgnoresWrites(r, w) == r = 1

\* Variant: only reads is tested, so a read nested in a write asks for the lock.
ReadNeedsLockIgnoresWrites(r, w) == r = 0

\* acquire_read: if self._reads == 0 and self._writes == 0
ReadNeedsLock(r, w) == r = 0 /\ w = 0

ReadOp == LOCK_SH

\* Variant: the upgrade check is missing.
WriteBranchNoUpgradeCheck(r, w) == IF w = 0 THEN "lock" ELSE "nested"

\* Variant: reads is tested before writes, so a write holder that also reads
\* can no longer nest acquire_write.
WriteBranchReadsFirst(r, w) ==
    IF r # 0 THEN "raise" ELSE IF w = 0 THEN "lock" ELSE "nested"

\* acquire_write: "nested" | "raise" | "lock"
WriteBranch(r, w) ==
    IF w = 0 THEN (IF r # 0 THEN "raise" ELSE "lock") ELSE "nested"

WriteOp == LOCK_EX

\* Variant: the stamp is written for the wrong kind of lock.
StampsFileOnShared(op) == op = LOCK_SH

\* Variant: the stamp is written whatever lock was taken.
StampsFileAlways(op) == TRUE

\* _lock: if op == fcntl.LOCK_EX: write the stamp
StampsFile(op) == op = LOCK_EX

\* Variant: the assertion is off by one.
AssertNotNegative(cnt) == cnt >= 0

\* assert self._reads > 0 / assert self._writes > 0
AssertHolds(cnt) == cnt > 0

\* Variant: the unlock test is written for the counter after its decrement.
ReadUnlocksAfterDecrement(r, w) == r = 0 /\ w = 0

\* release_read: if self._reads == 1 and self._writes == 0
ReadUnlocks(r, w) == r = 1 /\ w = 0

\* Variant: the last release_write unlocks although reads are outstanding.
WriteUnlocksIgnoresReads(r, w) == w = 1

\* release_write: if self._writes == 1 and self._reads == 0
WriteUnlocks(r, w) == w = 1 /\ r = 0

\* What each context manager calls on entry and on exit.
EnterCalls(ctx) ==
    IF ctx = "_ReadLockContext" THEN "acquire_read" ELSE "acquire_write"

\* Variant: _WriteLockContext.__exit__ copied from _ReadLockContext.
ExitCallsReleaseRead(ctx) == "release_read"

ExitCalls(ctx) ==
    IF ctx = "_ReadLockContext" THEN "release_read" ELSE "release_write"

Contexts == {"_ReadLockContext", "_WriteLockContext"}

KindOf(name) ==
    IF name \in {"acquire_read", "release_read"} THEN "r" ELSE "w"

----------------------------------------------------------------------------
(* Bookkeeping of runs of same-kind calls that start from UNLOCKED *)

TripAcquire(i, kind, fresh, exc) ==
    LET t == trip[i] IN
    IF fresh /\ exc = "none" THEN [kind |-> kind, up |-> 1, down |-> 0, err |-> FALSE]
    ELSE IF t.kind = kind /\ t.down = 0 /\ ~fresh
         THEN (IF exc = "none" THEN [t EXCEPT !.up = @ + 1]
                               ELSE [t EXCEPT !.err = TRUE])
         ELSE NoTrip

TripRelease(i, kind, exc) ==
    LET t == trip[i] IN
    IF t.kind = kind /\ t.down < t.up
    THEN (IF exc = "none" THEN [t EXCEPT !.down = @ + 1]
                          ELSE [t EXCEPT !.err = TRUE])
    ELSE NoTrip

----------------------------------------------------------------------------
(* Ends of an acquire call *)

\* _lock returned (or was not needed): the counter is incremented.
Returns(i, name, g, heldNew, contentNew, fresh, ev) ==
    /\ reads' = IF name = "acquire_read" THEN [reads EXCEPT ![i] = @ + 1] ELSE reads
    /\ writes' = IF name = "acquire_write" THEN [writes EXCEPT ![i] = @ + 1] ELSE writes
    /\ held' = heldNew
    /\ content' = contentNew
    /\ call' = [call EXCEPT ![i] = Idle]
    /\ scopes' = IF g # "none"
                 THEN [scopes EXCEPT ![i] =
                          Append(@, [ctx |-> g, reads0 |-> reads[i],
                                     writes0 |-> writes[i]])]
                 ELSE scopes
    /\ trip' = [trip EXCEPT ![i] = TripAcquire(i, KindOf(name), fresh, "none")]
    /\ last' = ev
    /\ thr' = thr

\* The call raised: no counter changes, a with-block is not entered.
Raises(i, name, heldNew, contentNew, ev) ==
    /\ UNCHANGED <<reads, writes, scopes>>
    /\ held' = heldNew
    /\ content' = contentNew
    /\ call' = [call EXCEPT ![i] = Idle]
    /\ trip' = [trip EXCEPT ![i] = TripAcquire(i, KindOf(name), FALSE, ev.exc)]
    /\ last' = ev
    /\ thr' = thr

\* One evaluation of the while test of _lock and, if it passes, one pass of
\* the loop body; total is the number of sleeps so far.
LockIter(i, name, g, op, timeout, total) ==
    LET e0 == [Ev(i, name, g) EXCEPT !.locked = TRUE]
        fresh == total = 0 /\ held[i] = LOCK_UN /\ ~Conflicts(i, op)
    IN
    IF ~LoopTest(total, timeout)
    THEN \* the loop ends and _lock returns None
         Returns(i, name, g, held, content, fresh, e0)
    ELSE
      \/ /\ ~Conflicts(i, op)
         /\ ~StampsFile(op)
         /\ Returns(i, name, g, [held EXCEPT ![i] = op], content, fresh,
                    [e0 EXCEPT !.flock = op, !.res = "ok"])
      \/ /\ ~Conflicts(i, op)
         /\ StampsFile(op)
         /\ Returns(i, name, g, [held EXCEPT ![i] = op], Stamp(i), fresh,
                    [e0 EXCEPT !.flock = op, !.res = "ok", !.wrote = TRUE])
      \/ /\ ~Conflicts(i, op)
         /\ StampsFile(op)
         \* open(path, 'w') or f.write fails with an IOError
         /\ \E c \in {content, Truncated}, e \in FaultErrnos :
               Raises(i, name, [held EXCEPT ![i] = op], c,
                      [e0 EXCEPT !.flock = op, !.res = "ok", !.wrote = (c # content),
                                 !.exc = Handler(e)])
      \/ /\ Conflicts(i, op)
         /\ Handler("EAGAIN") = "retry"
         \* time.sleep(0.1); total_time += 0.1
         /\ UNCHANGED <<reads, writes, content, scopes, thr>>
         /\ held' = AfterRefusal(i, op)
         /\ call' = [call EXCEPT ![i] =
                        [pc |-> "_lock", name |-> name, guard |-> g, op |-> op,
                         timeout |-> timeout, total_time |-> total + 1]]
         /\ trip' = [trip EXCEPT ![i] = NoTrip]
         /\ last' = [e0 EXCEPT !.flock = op, !.res = "EAGAIN", !.slept = TRUE,
                               !.done = FALSE]
      \/ \E e \in FaultErrnos :
            /\ Handler(e) # "retry"
            /\ Raises(i, name, held, content,
                      [e0 EXCEPT !.flock = op, !.res = e, !.exc = Handler(e)])

Acquire(i, name, t, g) ==
    /\ call[i].pc = "idle"
    /\ reads[i] + writes[i] < DepthCap(i)
    /\ IF name = "acquire_read"
       THEN IF ReadNeedsLock(reads[i], writes[i])
            THEN LockIter(i, name, g, ReadOp, t, 0)
            ELSE Returns(i, name, g, held, content, FALSE, Ev(i, name, g))
       ELSE CASE WriteBranch(reads[i], writes[i]) = "raise" ->
                 Raises(i, name, held, content,
                        [Ev(i, name, g) EXCEPT !.exc = "LockError"])
              [] WriteBranch(reads[i], writes[i]) = "lock" ->
                 LockIter(i, name, g, WriteOp, t, 0)
              [] OTHER ->
                 Returns(i, name, g, held, content, FALSE, Ev(i, name, g))

Release(i, name, g) ==
    LET r == reads[i]
        w == writes[i]
        cnt == IF name = "release_read" THEN r ELSE w
        unlocks == IF name = "release_read" THEN ReadUnlocks(r, w)
                                            ELSE WriteUnlocks(r, w)
        e0 == Ev(i, name, g)
        ok == AssertHolds(cnt)
    IN
    /\ call[i].pc = "idle"
    /\ IF ~ok
       THEN /\ UNCHANGED <<reads, writes, held>>
            /\ last' = [e0 EXCEPT !.exc = "AssertionError"]
       ELSE /\ held' = IF unlocks THEN [held EXCEPT ![i] = LOCK_UN] ELSE held
            /\ reads' = IF name = "release_read" THEN [reads EXCEPT ![i] = @ - 1]
                                                  ELSE reads
            /\ writes' = IF name = "release_write" THEN [writes EXCEPT ![i] = @ - 1]
                                                    ELSE writes
            /\ last' = [e0 EXCEPT !.unlocked = unlocks]
    /\ scopes' = IF g # "none" THEN [scopes EXCEPT ![i] = SubSeq(@, 1, Len(@) - 1)]
                             ELSE scopes
    /\ trip' = [trip EXCEPT ![i] =
                   TripRelease(i, KindOf(name), IF ok THEN "none" ELSE "AssertionError")]
    /\ UNCHANGED <<content, call, thr>>

----------------------------------------------------------------------------
(* Actions *)

AcquireRead(i, t) == scopes[i] = <<>> /\ Acquire(i, "acquire_read", t, "none")

AcquireWrite(i, t) == scopes[i] = <<>> /\ Acquire(i, "acquire_write", t, "none")

ReleaseRead(i) == scopes[i] = <<>> /\ Release(i, "release_read", "none")

ReleaseWrite(i) == scopes[i] = <<>> /\ Release(i, "release_write", "none")

\* with lock.read_lock(t): / with lock.write_lock(t):  -- __enter__
Enter(i, ctx, t) ==
    Acquire(i, EnterCalls(ctx), t, ctx)

\* __exit__(type, value, traceback) after the body completed or raised; the
\* arguments are ignored and None is returned.
Exit(i, body) ==
    /\ scopes[i] # <<>>
    /\ LET ctx == scopes[i][Len(scopes[i])].ctx
       IN Release(i, ExitCalls(ctx), ctx)

\* Back from time.sleep(0.1) inside _lock.
Poll(i) ==
    /\ call[i].pc = "_lock"
    /\ LockIter(i, call[i].name, call[i].guard, call[i].op, call[i].timeout,
                call[i].total_time)

Next ==
    \/ \E i \in Locks, t \in Timeouts : AcquireRead(i, t)
    \/ \E i \in Locks, t \in Timeouts : AcquireWrite(i, t)
    \/ \E i \in Locks : ReleaseRead(i)
    \/ \E i \in Locks : ReleaseWrite(i)
    \/ \E i \in Locks, ctx \in Contexts, t \in Timeouts : Enter(i, ctx, t)
    \/ \E i \in Locks, body \in {"normal", "raised"} : Exit(i, body)
    \/ \E i \in Locks : Poll(i)

Spec == Init /\ [][Next]_vars

\* Every action leaves in last the description of its own step, so last'
\* describes the step being taken.
----------------------------------------------------------------------------
(* Properties *)

Acquires == {"acquire_read", "acquire_write"}
Releases == {"release_read", "release_write"}

OpOf(name) == IF name = "acquire_read" THEN LOCK_SH ELSE LOCK_EX

\* i is between calls.
Between(i) == call[i].pc = "idle"

\* The step taken is the start of a call of method name by i.
Calls(i, name) == last'.inst = i /\ last'.name = name /\ call[i].pc = "idle"

\* C1: an acquire from zero counters that has been refused the OS lock and
\* finds its time budget used up, another instance still holding a
\* conflicting lock, ends with an exception and leaves both counters at zero.
C1_TimeoutIsSignalled ==
    [][\A i \in Locks :
          (/\ call[i].pc = "_lock" /\ call[i].total_time > 0
           /\ Conflicts(i, call[i].op)
           /\ last'.inst = i /\ last'.done /\ last'.flock = "none")
              => (last'.exc # "none" /\ reads'[i] = 0 /\ writes'[i] = 0)]_vars

\* C2: between calls, no instance has writes > 0 while another instance has
\* reads > 0 or writes > 0.
C2_MutualExclusion ==
    \A a \in Locks : \A b \in Locks \ {a} :
        (Between(a) /\ Between(b) /\ writes[a] > 0)
            => (reads[b] = 0 /\ writes[b] = 0)

\* C3: between calls, the OS lock is held shared iff reads > 0 and
\* writes = 0, exclusive iff writes > 0, and not held iff both are zero.
C3_CountersMatchOSLock ==
    \A i \in Locks :
        Between(i) =>
            /\ (held[i] = LOCK_SH) <=> (reads[i] > 0 /\ writes[i] = 0)
            /\ (held[i] = LOCK_EX) <=> (writes[i] > 0)
            /\ (held[i] = LOCK_UN) <=> (reads[i] = 0 /\ writes[i] = 0)

\* C4: acquire_write called with reads >= 1 and writes = 0 raises LockError
\* in that step, requests no flock, does not sleep, does not write the file
\* and leaves reads, writes and every OS lock as they were.
C4_UpgradeRefused ==
    [][\A i \in Locks :
          (Calls(i, "acquire_write") /\ reads[i] >= 1 /\ writes[i] = 0)
              => /\ last'.exc = "LockError" /\ last'.done
                 /\ last'.flock = "none" /\ ~last'.locked
                 /\ ~last'.slept /\ ~last'.wrote /\ ~last'.unlocked
                 /\ UNCHANGED <<reads, writes, held, content>>]_vars

C4_Witness ==
    \E i \in Locks :
        /\ last.inst = i /\ last.name = "acquire_write" /\ last.exc = "LockError"
        /\ reads[i] >= 1 /\ writes[i] = 0 /\ held[i] = LOCK_SH

\* C5 as stated: acquire_write called with reads > 0, whatever writes is,
\* raises LockError and leaves writes = 0.
C5_AlwaysUpgradeError ==
    [][\A i \in Locks :
          (Calls(i, "acquire_write") /\ reads[i] > 0)
              => (last'.exc = "LockError" /\ writes'[i] = 0)]_vars

\* C5 amended: acquire_write called with reads > 0 raises LockError exactly
\* when writes = 0, and then writes stays 0; with writes > 0 (write taken
\* first, read nested in it) it returns normally with writes one larger.
C5_UpgradeErrorIffNoWrite ==
    [][\A i \in Locks :
          (Calls(i, "acquire_write") /\ reads[i] > 0)
              => /\ (last'.exc = "LockError") <=> (writes[i] = 0)
                 /\ (writes[i] = 0) => (writes'[i] = 0)
                 /\ (writes[i] > 0) => (last'.exc = "none" /\ last'.done
                                         /\ writes'[i] = writes[i] + 1)]_vars

C5_Witness ==
    \E i \in Locks :
        /\ last.inst = i /\ last.name = "acquire_write" /\ last.exc = "none"
        /\ reads[i] > 0 /\ writes[i] >= 2

\* C6: in a run of n acquires of one kind that starts from UNLOCKED with no
\* conflicting holder and no OS error, followed by releases of that kind, no
\* call raises, the counter of that kind is the number of acquires not yet
\* released, the other counter is zero, and after the n-th release the OS
\* lock is not held.
C6_RoundTrip ==
    \A i \in Locks :
        LET t == trip[i] IN
        t.kind \in {"r", "w"} =>
            /\ ~t.err
            /\ reads[i] = (IF t.kind = "r" THEN t.up - t.down ELSE 0)
            /\ writes[i] = (IF t.kind = "w" THEN t.up - t.down ELSE 0)
            /\ (t.up = t.down) => (held[i] = LOCK_UN)

C6_Witness ==
    /\ trip["A"].kind = "r" /\ trip["A"].up = MaxDepth /\ trip["A"].down = MaxDepth
    /\ last.inst = "A" /\ last.name = "release_read" /\ last.unlocked

\* C7: a step of a context manager's __enter__ calls the acquire of its
\* kind; the block is entered iff that call returns normally, and a call that
\* raises leaves counters and open blocks as they were.  A step of __exit__
\* calls the release of the innermost block's kind, which does not raise,
\* closes that block and leaves reads and writes as they were before the
\* block was entered.
C7_GuardScopes ==
    [][\A i \in Locks :
          (last'.inst = i /\ last'.guard # "none") =>
              IF last'.name \in Acquires
              THEN /\ last'.name = (IF last'.guard = "_ReadLockContext"
                                    THEN "acquire_read" ELSE "acquire_write")
                   /\ (last'.done /\ last'.exc = "none")
                        => /\ Len(scopes'[i]) = Len(scopes[i]) + 1
                           /\ scopes'[i][Len(scopes'[i])].ctx = last'.guard
                           /\ reads'[i] + writes'[i] = reads[i] + writes[i] + 1
                   /\ (~last'.done \/ last'.exc # "none")
                        => /\ scopes'[i] = scopes[i]
                           /\ reads'[i] = reads[i] /\ writes'[i] = writes[i]
              ELSE LET top == scopes[i][Len(scopes[i])] IN
                   /\ last'.guard = top.ctx
                   /\ last'.name = (IF top.ctx = "_ReadLockContext"
                                    THEN "release_read" ELSE "release_write")
                   /\ last'.exc = "none" /\ last'.done
                   /\ scopes'[i] = SubSeq(scopes[i], 1, Len(scopes[i]) - 1)
                   /\ reads'[i] = top.reads0 /\ writes'[i] = top.writes0]_vars

C7_Witness ==
    \E i \in Locks :
        /\ last.inst = i /\ last.guard = "_WriteLockContext"
        /\ last.name = "release_write"
        /\ Len(scopes[i]) = 1 /\ scopes[i][1].ctx = "_WriteLockContext"
        /\ writes[i] = 1 /\ held[i] = LOCK_EX

\* C8: release_read called with reads = 0, or release_write with writes = 0,
\* raises AssertionError in that step, makes no unlock call and leaves every
\* counter, every OS lock and the file as they were.
C8_ReleaseAtZero ==
    [][\A i \in Locks :
          (\/ Calls(i, "release_read") /\ reads[i] = 0
           \/ Calls(i, "release_write") /\ writes[i] = 0)
              => /\ last'.exc = "AssertionError" /\ last'.done
                 /\ ~last'.unlocked /\ last'.flock = "none"
                 /\ UNCHANGED <<reads, writes, held, content>>
                 /\ reads'[i] >= 0 /\ writes'[i] >= 0]_vars

C8_Witness ==
    \E i \in Locks :
        /\ last.inst = i /\ last.name = "release_write"
        /\ last.exc = "AssertionError"
        /\ writes[i] = 0 /\ reads[i] > 0 /\ held[i] = LOCK_SH
        /\ \E j \in Locks \ {i} : held[j] = LOCK_SH

\* C9: b calls acquire_read with a timeout > 0 from zero counters while a
\* holds the OS lock shared with reads > 0 and writes = 0, no instance holds
\* the OS lock exclusively or is polling for it, and flock reports no error
\* other than EAGAIN: the first flock request is granted, the call returns in
\* that step without sleeping, and then both have reads > 0 and hold the OS
\* lock shared.
C9_SharedCoexistence ==
    [][\A a \in Locks : \A b \in Locks \ {a} :
          (/\ Calls(b, "acquire_read")
           /\ reads[b] = 0 /\ writes[b] = 0
           /\ held[a] = LOCK_SH /\ reads[a] > 0 /\ writes[a] = 0
           /\ \A j \in Locks : held[j] # LOCK_EX /\ call[j].op # LOCK_EX
           /\ last'.res \notin FaultErrnos
           /\ \E t \in Timeouts \ {0} :
                 AcquireRead(b, t) \/ Enter(b, "_ReadLockContext", t))
              => /\ last'.flock = LOCK_SH /\ last'.res = "ok"
                 /\ ~last'.slept /\ last'.done /\ last'.exc = "none"
                 /\ reads'[a] > 0 /\ reads'[b] = 1
                 /\ held'[a] = LOCK_SH /\ held'[b] = LOCK_SH]_vars

C9_Witness ==
    \E a \in Locks : \E b \in Locks \ {a} :
        /\ last.inst = b /\ last.name = "acquire_read" /\ last.res = "ok"
        /\ ~last.slept
        /\ reads[a] > 0 /\ writes[a] = 0 /\ reads[b] = 1 /\ writes[b] = 0
        /\ held[a] = LOCK_SH /\ held[b] = LOCK_SH

\* C10: a flock request that fails with an errno other than EAGAIN ends the
\* call in that step, without sleeping, with the IOError of that errno, and
\* leaves reads and writes as they were.
C10_OSErrorPropagates ==
    [][\A i \in Locks :
          (last'.inst = i /\ last'.res \in FaultErrnos)
              => /\ last'.exc = "IOError"
                 /\ last'.done /\ ~last'.slept
                 /\ UNCHANGED <<reads, writes>>]_vars

\* C11: an acquire_write step whose flock(LOCK_EX) is granted and that
\* returns normally leaves 'pid = <pid>, host = <fqdn>' of its process as the
\* whole file content with writes = 1; and while an instance that holds the
\* exclusive lock with its stamp in the file keeps writes > 0, the content
\* stays its stamp.
C11_OwnershipStamp ==
    [][\A i \in Locks :
          LET stamp == <<"pid = ", Pid(i), ", host = ", Host(i)>> IN
          /\ (/\ last'.inst = i /\ last'.name = "acquire_write"
              /\ last'.flock = LOCK_EX /\ last'.res = "ok"
              /\ last'.done /\ last'.exc = "none")
                 => (/\ last'.wrote /\ content' = stamp
                     /\ writes'[i] = 1 /\ held'[i] = LOCK_EX)
          /\ (/\ writes[i] > 0 /\ held[i] = LOCK_EX /\ content = stamp
              /\ writes'[i] > 0)
                 => (content' = stamp /\ held'[i] = LOCK_EX)]_vars

C11_Witness ==
    /\ last.inst = "B" /\ last.name = "acquire_write" /\ last.wrote
    /\ writes["B"] = 1 /\ held["B"] = LOCK_EX
    /\ content = <<"pid = ", 102, ", host = ", "node.example.org">>
    /\ trip["A"].kind = "w" /\ trip["A"].up = trip["A"].down

\* C13: while a is in exclusive mode and holds the OS lock exclusively, a
\* call of b that went through _lock does not return normally: if it ends,
\* it ends with an exception.
C13_NoReturnWhileExclusive ==
    [][\A a \in Locks : \A b \in Locks \ {a} :
          (/\ writes[a] > 0 /\ held[a] = LOCK_EX /\ held'[a] = LOCK_EX
           /\ last'.inst = b /\ last'.name \in Acquires
           /\ last'.locked /\ last'.done)
              => last'.exc # "none"]_vars

\* C14: flock(LOCK_EX) is requested only by an instance whose reads and
\* writes are both zero.
C14_ExclusiveOnlyFromUnlocked ==
    [][\A i \in Locks :
          (last'.inst = i /\ last'.flock = LOCK_EX)
              => (reads[i] = 0 /\ writes[i] = 0 /\ last'.name = "acquire_write")]_vars

C14_Witness ==
    \E i \in Locks : \E j \in Locks \ {i} :
        /\ last.inst = i /\ last.flock = LOCK_EX /\ last.res = "EAGAIN"
        /\ reads[i] = 0 /\ writes[i] = 0 /\ reads[j] > 0 /\ held[j] = LOCK_SH

\* The counters of i change by dr and dw in the step, and nothing else of
\* the lock does: no flock, sleep, unlock or file write, every OS lock and the
\* file content as before.
MemoryOnly(i, dr, dw) ==
    /\ reads' = [reads EXCEPT ![i] = @ + dr]
    /\ writes' = [writes EXCEPT ![i] = @ + dw]
    /\ held' = held /\ content' = content
    /\ last'.flock = "none" /\ ~last'.locked /\ ~last'.slept
    /\ ~last'.wrote /\ ~last'.unlocked
    /\ last'.done /\ last'.exc = "none"

\* C15: acquire_read with reads >= 1 or writes >= 1, acquire_write with
\* writes >= 1, release_read with reads > 1 and release_write with writes > 1
\* change their counter by one and nothing else; flock is requested only
\* with both counters zero and the unlock call is made only by a release
\* that leaves both counters zero.
C15_NestedIsMemoryOnly ==
    [][\A i \in Locks :
          /\ (Calls(i, "acquire_read") /\ (reads[i] >= 1 \/ writes[i] >= 1))
                => MemoryOnly(i, 1, 0)
          /\ (Calls(i, "acquire_write") /\ writes[i] >= 1)
                => MemoryOnly(i, 0, 1)
          /\ (Calls(i, "release_read") /\ reads[i] > 1)
                => MemoryOnly(i, -1, 0)
          /\ (Calls(i, "release_write") /\ writes[i] > 1)
                => MemoryOnly(i, 0, -1)
          /\ (last'.inst = i /\ last'.flock # "none")
                => (reads[i] = 0 /\ writes[i] = 0)
          /\ (last'.inst = i /\ last'.unlocked)
                => (reads'[i] = 0 /\ writes'[i] = 0 /\ held'[i] = LOCK_UN)]_vars

C15_Witness ==
    \E i \in Locks :
        /\ last.inst = i /\ last.name = "acquire_read" /\ last.flock = "none"
        /\ ~last.locked
        /\ reads[i] = 1 /\ writes[i] = 1 /\ held[i] = LOCK_EX

\* C16: a release by an instance that holds the OS lock exclusively keeps
\* it exclusive, without an unlock call, as long as a counter stays above
\* zero, and unlocks exactly when it leaves both counters zero; no other
\* step takes the exclusive OS lock from an instance with a counter above
\* zero.
C16_ExclusiveKeptUntilAllReleased ==
    [][\A i \in Locks :
          /\ (/\ last'.inst = i /\ last'.name \in Releases
               /\ last'.exc = "none" /\ held[i] = LOCK_EX)
                  => IF reads'[i] = 0 /\ writes'[i] = 0
                     THEN last'.unlocked /\ held'[i] = LOCK_UN
                     ELSE ~last'.unlocked /\ held'[i] = LOCK_EX
          /\ (/\ held[i] = LOCK_EX /\ (reads[i] > 0 \/ writes[i] > 0)
               /\ held'[i] # LOCK_EX)
                  => (/\ last'.inst = i /\ last'.name \in Releases
                      /\ last'.unlocked
                      /\ reads'[i] = 0 /\ writes'[i] = 0)]_vars

C16_Witness ==
    \E i \in Locks :
        /\ last.inst = i /\ last.name = "release_write" /\ ~last.unlocked
        /\ reads[i] > 0 /\ writes[i] = 0 /\ held[i] = LOCK_EX

\* C17: the file content changes, and the file is written, only in an
\* acquire_write step whose flock(LOCK_EX) was granted.
C17_OnlyExclusiveAcquireWrites ==
    [][(content' # content \/ last'.wrote)
          => (/\ last'.name = "acquire_write"
              /\ last'.flock = LOCK_EX /\ last'.res = "ok")]_vars

C17_Witness ==
    \E i \in Locks : \E j \in Locks \ {i} :
        /\ content = Stamp(i) /\ held[i] = LOCK_UN /\ writes[i] = 0
        /\ last.inst = j /\ last.name = "acquire_read" /\ last.res = "ok"
        /\ held[j] = LOCK_SH

\* C18: a call of acquire_read or acquire_write that starts with both
\* counters zero and ends in its first step has made a flock request.
C18_AtLeastOneRequest ==
    [][\A i \in Locks :
          (/\ last'.inst = i /\ last'.name \in Acquires
           /\ call[i].pc = "idle" /\ reads[i] = 0 /\ writes[i] = 0
           /\ last'.done)
              => last'.flock # "none"]_vars

\* C19: between calls, an instance whose reads and writes are both zero
\* holds no OS lock.
C19_UnlockedHoldsNothing ==
    \A i \in Locks :
        (Between(i) /\ reads[i] = 0 /\ writes[i] = 0) => held[i] = LOCK_UN

----------------------------------------------------------------------------
(* Two threads of one process on the same instance.  Each method is taken
   apart into the steps between which the interpreter may switch threads: the
   test of the counters, the flock call, and the load and the store of
   `self._reads += 1`.  No other instance contends and the timeout is
   positive, so the first flock request is granted. *)

Shared == "A"

AllIdle == \A t \in Threads : thr.pc[t] = "idle"

Ends(t) == [thr EXCEPT !.pc[t] = "idle", !.name[t] = "none", !.tmp[t] = 0]

Goes(t, name, pc) == [thr EXCEPT !.pc[t] = pc, !.name[t] = name]

\* The call starts and evaluates its first condition: the if of an acquire,
\* the assert of a release.  With external serialization it starts only when
\* no other call is under way.
Begin(t, name) ==
    LET r == reads[Shared]
        w == writes[Shared]
    IN
    /\ thr.pc[t] = "idle"
    /\ thr.serial => AllIdle
    /\ name \in Acquires => (r < MaxDepth /\ w < MaxDepth)
    /\ thr' = CASE name = "acquire_read" ->
                     Goes(t, name, IF ReadNeedsLock(r, w) THEN "_lock" ELSE "load")
                [] name = "acquire_write" ->
                     IF WriteBranch(r, w) = "raise"
                     THEN Ends(t)
                     ELSE Goes(t, name, IF WriteBranch(r, w) = "lock"
                                        THEN "_lock" ELSE "load")
                [] name = "release_read" ->
                     IF AssertHolds(r) THEN Goes(t, name, "test") ELSE Ends(t)
                [] OTHER ->
                     IF AssertHolds(w) THEN Goes(t, name, "test") ELSE Ends(t)
    /\ UNCHANGED <<reads, writes, held, content, call, scopes, trip, last>>

\* _lock: the flock request, granted, and the stamp for LOCK_EX
LockStep(t) ==
    LET op == IF thr.name[t] = "acquire_read" THEN ReadOp ELSE WriteOp IN
    /\ thr.pc[t] = "_lock"
    /\ ~Conflicts(Shared, op)
    /\ held' = [held EXCEPT ![Shared] = op]
    /\ content' = IF StampsFile(op) THEN Stamp(Shared) ELSE content
    /\ thr' = Goes(t, thr.name[t], "load")
    /\ UNCHANGED <<reads, writes, call, scopes, trip, last>>

\* release_read: if self._reads == 1 and self._writes == 0, and likewise
\* release_write
TestStep(t) ==
    LET r == reads[Shared]
        w == writes[Shared]
        unlocks == IF thr.name[t] = "release_read" THEN ReadUnlocks(r, w)
                                                   ELSE WriteUnlocks(r, w)
    IN
    /\ thr.pc[t] = "test"
    /\ thr' = Goes(t, thr.name[t], IF unlocks THEN "_unlock" ELSE "load")
    /\ UNCHANGED <<reads, writes, held, content, call, scopes, trip, last>>

\* _unlock: flock(fd, LOCK_UN)
UnlockStep(t) ==
    /\ thr.pc[t] = "_unlock"
    /\ held' = [held EXCEPT ![Shared] = LOCK_UN]
    /\ thr' = Goes(t, thr.name[t], "load")
    /\ UNCHANGED <<reads, writes, content, call, scopes, trip, last>>

\* self._reads += 1 and the like: the attribute is loaded ...
Load(t) ==
    /\ thr.pc[t] = "load"
    /\ thr' = [thr EXCEPT !.pc[t] = "store",
                          !.tmp[t] = IF KindOf(thr.name[t]) = "r"
                                     THEN reads[Shared] ELSE writes[Shared]]
    /\ UNCHANGED <<reads, writes, held, content, call, scopes, trip, last>>

\* ... and the sum is stored
Store(t) ==
    LET d == IF thr.name[t] \in Acquires THEN 1 ELSE -1
        cur == IF KindOf(thr.name[t]) = "r" THEN reads[Shared] ELSE writes[Shared]
    IN
    /\ thr.pc[t] = "store"
    /\ thr.tmp[t] + d \in -MaxDepth..MaxDepth
    /\ reads' = IF KindOf(thr.name[t]) = "r"
                THEN [reads EXCEPT ![Shared] = thr.tmp[t] + d] ELSE reads
    /\ writes' = IF KindOf(thr.name[t]) = "w"
                 THEN [writes EXCEPT ![Shared] = thr.tmp[t] + d] ELSE writes
    /\ thr' = [Ends(t) EXCEPT !.lost = thr.lost \/ cur # thr.tmp[t]]
    /\ UNCHANGED <<held, content, call, scopes, trip, last>>

InitThreads ==
    /\ reads = [i \in Locks |-> 0]
    /\ writes = [i \in Locks |-> 0]
    /\ held = [i \in Locks |-> LOCK_UN]
    /\ content = InitialContent
    /\ call = [i \in Locks |-> Idle]
    /\ scopes = [i \in Locks |-> <<>>]
    /\ trip = [i \in Locks |-> NoTrip]
    /\ last = NoEvent
    /\ \E s \in BOOLEAN : thr = [SingleThreaded EXCEPT !.serial = s]

NextThreads ==
    \/ \E t \in Threads, name \in Acquires \cup Releases : Begin(t, name)
    \/ \E t \in Threads : LockStep(t)
    \/ \E t \in Threads : TestStep(t)
    \/ \E t \in Threads : UnlockStep(t)
    \/ \E t \in Threads : Load(t)
    \/ \E t \in Threads : Store(t)

SpecThreads == InitThreads /\ [][NextThreads]_vars

\* C20: when every call on the instance runs alone, no counter update is
\* lost and, between calls, no counter is negative and a counter above zero
\* comes with an OS lock held.
C20_SerializedCallsAreSafe ==
    thr.serial =>
        /\ ~thr.lost
        /\ AllIdle =>
              /\ reads[Shared] >= 0 /\ writes[Shared] >= 0
              /\ (reads[Shared] > 0 \/ writes[Shared] > 0)
                    => held[Shared] # LOCK_UN

\* without serialization: an update was lost and a counter is above zero
\* although the instance holds no OS lock
C20_Witness ==
    /\ ~thr.serial /\ AllIdle /\ thr.lost
    /\ reads[Shared] > 0 /\ held[Shared] = LOCK_UN

----------------------------------------------------------------------------
(* Long waits: direct calls with timeouts of 0.8 s and 1 s *)

DriftTimeouts == {8, 10}

NextPoll ==
    \/ \E i \in Locks, t \in DriftTimeouts : AcquireRead(i, t)
    \/ \E i \in Locks, t \in DriftTimeouts : AcquireWrite(i, t)
    \/ \E i \in Locks : ReleaseRead(i)
    \/ \E i \in Locks : ReleaseWrite(i)
    \/ \E i \in Locks : Poll(i)

SpecPoll == Init /\ [][NextPoll]_vars

\* C12: a flock request is made only while fewer than timeout / 0.1 s
\* requests have been refused (at most ceil(timeout / interval) requests per
\* call), and a call that has slept timeout / 0.1 s times ends without a
\* further request.
C12_BoundedAttempts ==
    [][\A i \in Locks :
          (call[i].pc = "_lock" /\ last'.inst = i)
              => /\ (last'.flock # "none")
                      => (call[i].total_time + 1 <= call[i].timeout)
                 /\ (call[i].total_time >= call[i].timeout)
                      => (last'.done /\ last'.flock = "none")]_vars

====
